---- MODULE Spec2Model ----
(***************************************************************************)
(* A model of the telemetrydeck-wasm client: the signal builder            *)
(* (src/src/core.rs), the native transport (src/src/client_native.rs) and  *)
(* the cooperative single-threaded client (src/src/telemetry.rs).          *)
(*                                                                         *)
(* Representation of the Rust values:                                      *)
(*   String that is inspected character by character (parameter keys and   *)
(*     values, user identifier, salt, client_user, payload entries):       *)
(*     a sequence of one-character strings, <<"a", ":", "b">>;             *)
(*   String that is only copied or formatted (app id, session id, signal   *)
(*     type, namespace, URLs): a TLA+ string, joined with \o;              *)
(*   Option<T>: a sequence of length at most one, None == <<>> and         *)
(*     Some(v) == <<v>>;                                                   *)
(*   HashMap<String, String>: a function from keys to values;              *)
(*   Vec<T>: a sequence;                                                   *)
(*   f64: an opaque token (the model never computes with it).              *)
(***************************************************************************)
EXTENDS Integers, Sequences, FiniteSets, TLC

VARIABLES
  target,          \* "native" (core.rs + client_native.rs) or "wasm" (telemetry.rs)
  caller_params,   \* the params argument the constructor was called with
  url,             \* TelemetryDeck.url
  app_id,          \* TelemetryDeck.app_id
  namespace,       \* TelemetryDeck.namespace : Option<String>
  salt,            \* TelemetryDeck.salt : Option<String>
  default_params,  \* TelemetryDeck.default_params : HashMap<String, String>
  session_id,      \* TelemetryDeck.session_id
  uuids,           \* number of identifiers drawn from Uuid::new_v4 so far
  now,             \* the reading of the UTC clock
  resets,          \* number of reset_session calls so far
  calls,           \* one record per call of create_signal / send / send_sync
  posts            \* the POST requests handed to the HTTP client, in order

vars == << target, caller_params, url, app_id, namespace, salt, default_params, session_id,
           uuids, now, resets, calls, posts >>

config == << url, app_id, namespace, salt, default_params, session_id >>

-----------------------------------------------------------------------------
(* Option<T> *)

None == <<>>

Some(v) == <<v>>

is_some(o) == o # <<>>

is_none(o) == o = <<>>

\* Option::unwrap_or
unwrap_or(o, d) == IF is_some(o) THEN o[1] ELSE d

-----------------------------------------------------------------------------
(* SHA-256 (sha2::Sha256), on 32-bit words kept as <<high half, low half>>. *)
(* The halves are 16-bit naturals, so that no intermediate value leaves the *)
(* range of the integers of the model checker.                              *)

W16 == 65536

\* bitwise a XOR b XOR c on the low n bits
RECURSIVE Xor3(_, _, _, _)
Xor3(a, b, c, n) ==
  IF n = 0 THEN 0
  ELSE (((a % 2) + (b % 2) + (c % 2)) % 2)
         + 2 * Xor3(a \div 2, b \div 2, c \div 2, n - 1)

\* bitwise (e AND f) XOR ((NOT e) AND g) on the low n bits
RECURSIVE ChBits(_, _, _, _)
ChBits(e, f, g, n) ==
  IF n = 0 THEN 0
  ELSE (IF (e % 2) = 1 THEN (f % 2) ELSE (g % 2))
         + 2 * ChBits(e \div 2, f \div 2, g \div 2, n - 1)

\* bitwise majority of a, b, c on the low n bits
RECURSIVE MajBits(_, _, _, _)
MajBits(a, b, c, n) ==
  IF n = 0 THEN 0
  ELSE (IF (a % 2) + (b % 2) + (c % 2) >= 2 THEN 1 ELSE 0)
         + 2 * MajBits(a \div 2, b \div 2, c \div 2, n - 1)

\* rotate the 32-bit word w right by n bits, 0 < n < 32
Rotr(w, n) ==
  LET v == IF n >= 16 THEN <<w[2], w[1]>> ELSE w
      k == IF n >= 16 THEN n - 16 ELSE n
      p == 2 ^ k
      q == 2 ^ (16 - k)
  IN  IF k = 0 THEN v
      ELSE << (v[1] \div p) + (v[2] % p) * q, (v[2] \div p) + (v[1] % p) * q >>

\* shift the 32-bit word w right by n bits, 0 < n < 16
Shr(w, n) ==
  LET p == 2 ^ n
      q == 2 ^ (16 - n)
  IN  << w[1] \div p, (w[2] \div p) + (w[1] % p) * q >>

WXor3(a, b, c) == << Xor3(a[1], b[1], c[1], 16), Xor3(a[2], b[2], c[2], 16) >>

WCh(e, f, g) == << ChBits(e[1], f[1], g[1], 16), ChBits(e[2], f[2], g[2], 16) >>

WMaj(a, b, c) == << MajBits(a[1], b[1], c[1], 16), MajBits(a[2], b[2], c[2], 16) >>

RECURSIVE SumHi(_)
SumHi(ws) == IF ws = <<>> THEN 0 ELSE Head(ws)[1] + SumHi(Tail(ws))

RECURSIVE SumLo(_)
SumLo(ws) == IF ws = <<>> THEN 0 ELSE Head(ws)[2] + SumLo(Tail(ws))

\* the sum of the words of ws modulo 2^32
WAdd(ws) ==
  LET lo == SumLo(ws)
      hi == SumHi(ws) + (lo \div W16)
  IN  << hi % W16, lo % W16 >>

BigSigma0(a) == WXor3(Rotr(a, 2), Rotr(a, 13), Rotr(a, 22))

BigSigma1(e) == WXor3(Rotr(e, 6), Rotr(e, 11), Rotr(e, 25))

SmallSigma0(w) == WXor3(Rotr(w, 7), Rotr(w, 18), Shr(w, 3))

SmallSigma1(w) == WXor3(Rotr(w, 17), Rotr(w, 19), Shr(w, 10))

K256 ==
  <<
    <<17034, 12184>>, <<28983, 17553>>, <<46528, 64463>>, <<59829, 56229>>,
    <<14678, 49755>>, <<23025, 4593>>, <<37439, 33444>>, <<43804, 24277>>,
    <<55303, 43672>>, <<4739, 23297>>, <<9265, 34238>>, <<21772, 32195>>,
    <<29374, 23924>>, <<32990, 45566>>, <<39900, 1703>>, <<49563, 61812>>,
    <<58523, 27073>>, <<61374, 18310>>, <<4033, 40390>>, <<9228, 41420>>,
    <<11753, 11375>>, <<19060, 33962>>, <<23728, 43484>>, <<30457, 35034>>,
    <<38974, 20818>>, <<43057, 50797>>, <<45059, 10184>>, <<48985, 32711>>,
    <<50912, 3059>>, <<54695, 37191>>, <<1738, 25425>>, <<5161, 10599>>,
    <<10167, 2693>>, <<11803, 8504>>, <<19756, 28156>>, <<21304, 3347>>,
    <<25866, 29524>>, <<30314, 2747>>, <<33218, 51502>>, <<37490, 11397>>,
    <<41663, 59553>>, <<43034, 26187>>, <<49739, 35696>>, <<51052, 20899>>,
    <<53650, 59417>>, <<54937, 1572>>, <<62478, 13701>>, <<4202, 41072>>,
    <<6564, 49430>>, <<7735, 27656>>, <<10056, 30540>>, <<13488, 48309>>,
    <<14620, 3251>>, <<20184, 43594>>, <<23452, 51791>>, <<26670, 28659>>,
    <<29839, 33518>>, <<30885, 25455>>, <<33992, 30740>>, <<36039, 520>>,
    <<37054, 65530>>, <<42064, 27883>>, <<48889, 41975>>, <<50801, 30962>>
  >>

H256 ==
  <<
    <<27145, 58983>>, <<47975, 44677>>, <<15470, 62322>>, <<42319, 62778>>,
    <<20750, 21119>>, <<39685, 26764>>, <<8067, 55723>>, <<23520, 52505>>
  >>

RECURSIVE Zeros(_)
Zeros(n) == IF n = 0 THEN <<>> ELSE <<0>> \o Zeros(n - 1)

\* the message followed by 0x80, zeros, and its length in bits on 8 bytes
Pad(bytes) ==
  LET n == Len(bytes)
      bits == 8 * n
  IN  bytes \o <<128>> \o Zeros((55 - n) % 64)
        \o << 0, 0, 0, 0, (bits \div 16777216) % 256, (bits \div 65536) % 256,
              (bits \div 256) % 256, (bits % 256) >>

\* word i (1..16) of block b (0..) of the padded message p
BlockWord(p, b, i) ==
  LET o == 64 * b + 4 * (i - 1)
  IN  << p[o + 1] * 256 + p[o + 2], p[o + 3] * 256 + p[o + 4] >>

\* The model checker evaluates LET definitions on demand: the tests on nw and
\* nx below make it compute each word before the next step uses it.
RECURSIVE Schedule(_, _)
Schedule(W, t) ==
  IF t > 64 THEN W
  ELSE LET w == WAdd(<< SmallSigma1(W[t - 2]), W[t - 7],
                        SmallSigma0(W[t - 15]), W[t - 16] >>)
           nw == Append(W, w)
       IN  IF Len(nw) = t THEN Schedule(nw, t + 1) ELSE <<>>

Round(st, k, w) ==
  LET t1 == WAdd(<< st[8], BigSigma1(st[5]), WCh(st[5], st[6], st[7]), k, w >>)
      t2 == WAdd(<< BigSigma0(st[1]), WMaj(st[1], st[2], st[3]) >>)
  IN  << WAdd(<<t1, t2>>), st[1], st[2], st[3],
         WAdd(<<st[4], t1>>), st[5], st[6], st[7] >>

RECURSIVE Rounds(_, _, _)
Rounds(st, W, t) ==
  IF t > 64 THEN st
  ELSE LET nx == Round(st, K256[t], W[t])
       IN  IF nx[1][1] >= 0 THEN Rounds(nx, W, t + 1) ELSE <<>>

Compress(h, p, b) ==
  LET W == Schedule([i \in 1..16 |-> BlockWord(p, b, i)], 17)
      st == Rounds(h, W, 1)
  IN  << WAdd(<<h[1], st[1]>>), WAdd(<<h[2], st[2]>>),
         WAdd(<<h[3], st[3]>>), WAdd(<<h[4], st[4]>>),
         WAdd(<<h[5], st[5]>>), WAdd(<<h[6], st[6]>>),
         WAdd(<<h[7], st[7]>>), WAdd(<<h[8], st[8]>>) >>

RECURSIVE Blocks(_, _, _)
Blocks(h, p, b) ==
  IF 64 * b >= Len(p) THEN h
  ELSE LET nx == Compress(h, p, b)
       IN  IF nx[1][1] >= 0 THEN Blocks(nx, p, b + 1) ELSE <<>>

\* Sha256::new(); update(bytes); finalize(): the digest as eight words
Sha256(bytes) == Blocks(H256, Pad(bytes), 0)

-----------------------------------------------------------------------------
(* Characters, bytes and hexadecimal formatting *)

\* the printable ASCII characters, code 32 first (code 96, the grave accent,
\* is held by a name: it cannot be written in a string here)
AsciiChars ==
  <<
    " ", "!", "\"", "#", "$", "%", "&", "'", "(", ")", "*", "+",
    ",", "-", ".", "/", "0", "1", "2", "3", "4", "5", "6", "7",
    "8", "9", ":", ";", "<", "=", ">", "?", "@", "A", "B", "C",
    "D", "E", "F", "G", "H", "I", "J", "K", "L", "M", "N", "O",
    "P", "Q", "R", "S", "T", "U", "V", "W", "X", "Y", "Z", "[",
    "\\", "]", "^", "_", "GRAVE", "a", "b", "c", "d", "e", "f", "g",
    "h", "i", "j", "k", "l", "m", "n", "o", "p", "q", "r", "s",
    "t", "u", "v", "w", "x", "y", "z", "{", "|", "}", "~"
  >>

\* the byte of an ASCII character
Ord(c) == 31 + (CHOOSE i \in 1..Len(AsciiChars) : AsciiChars[i] = c)

\* str::as_bytes
as_bytes(s) == [i \in 1..Len(s) |-> Ord(s[i])]

LowerDigits ==
  <<"0", "1", "2", "3", "4", "5", "6", "7", "8", "9", "a", "b", "c", "d", "e", "f">>

UpperDigits ==
  <<"0", "1", "2", "3", "4", "5", "6", "7", "8", "9", "A", "B", "C", "D", "E", "F">>

Hex16(v, digits) ==
  << digits[(v \div 4096) + 1], digits[((v \div 256) % 16) + 1],
     digits[((v \div 16) % 16) + 1], digits[(v % 16) + 1] >>

RECURSIVE HexWords(_, _)
HexWords(ws, digits) ==
  IF ws = <<>> THEN <<>>
  ELSE Hex16(Head(ws)[1], digits) \o Hex16(Head(ws)[2], digits)
         \o HexWords(Tail(ws), digits)

\* format!("{:x}", digest)
LowerHex(digest) == HexWords(digest, LowerDigits)

\* format!("{:X}", digest)
UpperHex(digest) == HexWords(digest, UpperDigits)

\* char::to_lowercase on one ASCII character
lower_char(c) ==
  LET o == Ord(c) IN IF o >= 65 /\ o <= 90 THEN AsciiChars[o + 32 - 31] ELSE c

\* str::to_lowercase
to_lowercase(s) == [i \in 1..Len(s) |-> lower_char(s[i])]

-----------------------------------------------------------------------------
(* The inputs of the model *)

\* user identifiers passed as client_user
UserTexts ==
  { <<"c", "l", "i", "e", "n", "t", "U", "s", "e", "r">>,
    <<"a", "b">>, <<"a">>, <<"c">>, <<>> }

\* salts given to new_with_config
SaltTexts ==
  { <<>>, <<"c">>, <<"b", "c">>,
    <<"s", "o", "m", "e", "S", "a", "l", "t">> }

SaltOptions == {None} \cup { Some(s) : s \in SaltTexts }

\* sha2::Sha256 applied to bytes. The digests of the messages that the inputs
\* above lead to are tabulated, each as its eight words; any other message
\* goes through the algorithm
Sha256Of(bytes) ==
  CASE
       bytes = <<>> ->   \* ""
        << <<58288, 50242>>, <<39164, 7188>>, <<39675, 62664>>, <<39279, 47396>>,
           <<10158, 16868>>, <<25755, 37708>>, <<42133, 39195>>, <<30802, 47189>> >>
    [] bytes = <<97>> ->   \* "a"
        << <<51863, 33042>>, <<51739, 48586>>, <<64194, 12723>>, <<39459, 56397>>,
           <<42886, 61432>>, <<5244, 20082>>, <<47488, 30597>>, <<45038, 18619>> >>
    [] bytes = <<99>> ->   \* "c"
        << <<11901, 11267>>, <<43344, 31458>>, <<26092, 62901>>, <<13672, 34213>>,
           <<13203, 41474>>, <<40228, 5012>>, <<39282, 26017>>, <<41562, 61382>> >>
    [] bytes = <<97, 98>> ->   \* "ab"
        << <<64398, 8444>>, <<11852, 16164>>, <<35936, 50075>>, <<54866, 62401>>,
           <<13426, 39099>>, <<38779, 35661>>, <<22787, 47184>>, <<21858, 1539>> >>
    [] bytes = <<97, 99>> ->   \* "ac"
        << <<62557, 58652>>, <<57075, 2449>>, <<21790, 16872>>, <<33501, 31572>>,
           <<1145, 38472>>, <<41120, 1875>>, <<62543, 51558>>, <<58901, 16321>> >>
    [] bytes = <<98, 99>> ->   \* "bc"
        << <<7691, 48492>>, <<26731, 41040>>, <<47339, 1023>>, <<61148, 25853>>,
           <<51672, 2375>>, <<64744, 8619>>, <<48733, 28104>>, <<53842, 50604>> >>
    [] bytes = <<99, 99>> ->   \* "cc"
        << <<13659, 7103>>, <<51559, 9677>>, <<52879, 18983>>, <<2301, 41744>>,
           <<43022, 27923>>, <<12634, 60494>>, <<24301, 10869>>, <<65152, 13006>> >>
    [] bytes = <<97, 98, 99>> ->   \* "abc"
        << <<47736, 5823>>, <<36609, 53226>>, <<16705, 16606>>, <<23982, 8739>>,
           <<45059, 24995>>, <<38423, 31388>>, <<46096, 65377>>, <<61952, 5549>> >>
    [] bytes = <<99, 98, 99>> ->   \* "cbc"
        << <<61765, 20327>>, <<27883, 9560>>, <<32115, 57027>>, <<58869, 58811>>,
           <<42187, 36615>>, <<23956, 30968>>, <<32358, 44703>>, <<4358, 36397>> >>
    [] bytes = <<97, 98, 98, 99>> ->   \* "abbc"
        << <<30252, 46190>>, <<42794, 19957>>, <<57741, 35412>>, <<26404, 55380>>,
           <<56545, 17201>>, <<48101, 37444>>, <<50669, 27284>>, <<9533, 41267>> >>
    [] bytes = <<115, 111, 109, 101, 83, 97, 108, 116>> ->   \* "someSalt"
        << <<16636, 44034>>, <<10140, 63109>>, <<59714, 52703>>, <<22726, 46610>>,
           <<26031, 62457>>, <<3160, 44665>>, <<45314, 39436>>, <<51501, 30962>> >>
    [] bytes = <<97, 115, 111, 109, 101, 83, 97, 108, 116>> ->   \* "asomeSalt"
        << <<60878, 14646>>, <<21642, 9352>>, <<21882, 52852>>, <<36068, 36061>>,
           <<52134, 48542>>, <<51474, 149>>, <<15861, 23143>>, <<53011, 19249>> >>
    [] bytes = <<99, 115, 111, 109, 101, 83, 97, 108, 116>> ->   \* "csomeSalt"
        << <<37364, 25389>>, <<28074, 43706>>, <<37155, 25648>>, <<52089, 34806>>,
           <<59213, 6311>>, <<12301, 63598>>, <<48279, 41004>>, <<17216, 2865>> >>
    [] bytes = <<97, 98, 115, 111, 109, 101, 83, 97, 108, 116>> ->   \* "absomeSalt"
        << <<29332, 35829>>, <<62344, 55495>>, <<3323, 36813>>, <<22271, 30775>>,
           <<36911, 26785>>, <<44572, 18041>>, <<30989, 4530>>, <<43634, 42112>> >>
    [] bytes = <<99, 108, 105, 101, 110, 116, 85, 115, 101, 114>> ->   \* "clientUser"
        << <<26401, 34565>>, <<32832, 6434>>, <<21663, 59645>>, <<45210, 1613>>,
           <<47707, 34706>>, <<64001, 36155>>, <<55807, 43279>>, <<58234, 329>> >>
    [] bytes = <<99, 108, 105, 101, 110, 116, 85, 115, 101, 114, 99>> ->   \* "clientUserc"
        << <<53015, 28396>>, <<55707, 27274>>, <<8618, 3459>>, <<47778, 25501>>,
           <<50882, 570>>, <<5903, 48622>>, <<50473, 21981>>, <<61396, 54848>> >>
    [] bytes = <<99, 108, 105, 101, 110, 116, 85, 115, 101, 114, 98, 99>> ->   \* "clientUserbc"
        << <<23065, 6856>>, <<36661, 36417>>, <<20974, 5438>>, <<22, 10482>>,
           <<26704, 57864>>, <<52732, 43621>>, <<3481, 40652>>, <<55623, 36624>> >>
    [] bytes = <<99, 108, 105, 101, 110, 116, 85, 115, 101, 114, 115, 111, 109, 101, 83, 97, 108, 116>> ->   \* "clientUsersomeSalt"
        << <<65501, 24892>>, <<58657, 45801>>, <<19337, 12733>>, <<44543, 55656>>,
           <<22518, 43965>>, <<59072, 60959>>, <<53003, 30226>>, <<32699, 40538>> >>
    [] bytes = <<114, 117, 115, 116>> ->   \* "rust"
        << <<21023, 58825>>, <<60641, 43551>>, <<35686, 8833>>, <<29017, 33379>>,
           <<22346, 61382>>, <<64075, 41066>>, <<24948, 32456>>, <<7913, 62883>> >>
    [] bytes = <<114, 117, 115, 116, 99>> ->   \* "rustc"
        << <<28621, 13592>>, <<35307, 3247>>, <<21700, 22928>>, <<20121, 27335>>,
           <<18442, 30787>>, <<42472, 41564>>, <<35947, 22944>>, <<63861, 51737>> >>
    [] bytes = <<114, 117, 115, 116, 98, 99>> ->   \* "rustbc"
        << <<27434, 44612>>, <<20581, 62583>>, <<59878, 12361>>, <<17271, 19256>>,
           <<10548, 49835>>, <<20076, 4704>>, <<56330, 43516>>, <<63018, 14589>> >>
    [] bytes = <<114, 117, 115, 116, 115, 111, 109, 101, 83, 97, 108, 116>> ->   \* "rustsomeSalt"
        << <<3362, 4256>>, <<36707, 13029>>, <<31202, 56040>>, <<32771, 22690>>,
           <<50026, 37382>>, <<21551, 29501>>, <<6857, 54982>>, <<3419, 24096>> >>
    [] OTHER -> Sha256(bytes)

-----------------------------------------------------------------------------
(* Program constants *)

\* env!("CARGO_PKG_VERSION"): the version of the crate being built
VERSION == <<"0", ".", "4", ".", "0">>

CLIENT_VERSION_KEY ==
  <<"t", "e", "l", "e", "m", "e", "t", "r", "y", "C", "l",
    "i", "e", "n", "t", "V", "e", "r", "s", "i", "o", "n">>

\* the base URL set by both constructors
BASE_URL == "https://nom.telemetrydeck.com"

\* client_user of a signal built without a user identifier
PLACEHOLDER == <<"r", "u", "s", "t">>

CONTENT_TYPE == "application/json"

-----------------------------------------------------------------------------
(* core.rs: the signal builder *)

\* adding_params in which an entry of params1 keeps its value
adding_params_left(params1, params2) ==
  IF is_some(params2)
  THEN [k \in (DOMAIN params1) \cup (DOMAIN params2[1]) |->
          IF k \in DOMAIN params1 THEN params1[k] ELSE params2[1][k]]
  ELSE params1

\* HashMap::extend over a clone of params1 with the entries of params2
adding_params(params1, params2) ==
  IF is_some(params2)
  THEN [k \in (DOMAIN params1) \cup (DOMAIN params2[1]) |->
          IF k \in DOMAIN params2[1] THEN params2[1][k] ELSE params1[k]]
  ELSE params1

\* str::replacen(from, to, 1): only the first occurrence is replaced
replace_first(s, from, to) ==
  IF \E i \in 1..Len(s) : s[i] = from
  THEN LET i == CHOOSE i \in 1..Len(s) : s[i] = from /\ \A j \in 1..(i - 1) : s[j] # from
       IN  SubSeq(s, 1, i - 1) \o to \o SubSeq(s, i + 1, Len(s))
  ELSE s

\* str::replace(from, to) for a one-character pattern
RECURSIVE replace(_, _, _)
replace(s, from, to) ==
  IF s = <<>> THEN <<>>
  ELSE (IF Head(s) = from THEN to ELSE <<Head(s)>>) \o replace(Tail(s), from, to)

\* format!("{}:{}", k.replace(':', "_"), v)
encoded_entry(k, v) == replace(k, ":", <<"_">>) \o <<":">> \o v

\* HashMap::into_iter: the entries in an order that the map chooses; every
\* enumeration of the keys is a possible order
RECURSIVE into_iter(_)
into_iter(keys) ==
  IF keys = {} THEN { <<>> }
  ELSE UNION { { <<k>> \o r : r \in into_iter(keys \ {k}) } : k \in keys }

\* the entries of the keys in order, leaving out a key whose sanitized text
\* was written before
RECURSIVE dedup_entries(_, _, _)
dedup_entries(params, order, seen) ==
  IF order = <<>> THEN <<>>
  ELSE LET k == Head(order)
           t == replace(k, ":", <<"_">>)
       IN  IF t \in seen THEN dedup_entries(params, Tail(order), seen)
           ELSE <<encoded_entry(k, params[k])>>
                  \o dedup_entries(params, Tail(order), seen \cup {t})

\* encoded_payload that writes one entry per sanitized key
encoded_payload_dedup(params, order) == dedup_entries(params, order, {})

\* encoded_payload, given the order in which the map yields its keys
encoded_payload(params, order) ==
  [i \in 1..Len(order) |-> encoded_entry(order[i], params[order[i]])]

\* the closure with a separator between identifier and salt
hash_user_separated(u, the_salt) ==
  LET user_with_salt == IF is_some(the_salt) THEN u \o <<":">> \o the_salt[1] ELSE u
  IN  LowerHex(Sha256Of(as_bytes(user_with_salt)))

\* the closure with the salt put before the identifier
hash_user_salt_first(u, the_salt) ==
  LET user_with_salt == IF is_some(the_salt) THEN the_salt[1] \o u ELSE u
  IN  LowerHex(Sha256Of(as_bytes(user_with_salt)))

\* the closure of create_signal that hashes the user identifier:
\* format!("{:x}", sha256(format!("{}{}", u, salt)))
hash_user(u, the_salt) ==
  LET user_with_salt == IF is_some(the_salt) THEN u \o the_salt[1] ELSE u
  IN  LowerHex(Sha256Of(as_bytes(user_with_salt)))

\* map_or_else whose default is hashed like an identifier
resolve_client_user_hashing(client_user, the_salt) ==
  hash_user(unwrap_or(client_user, PLACEHOLDER), the_salt)

\* client_user.map_or_else(|| "rust".to_string(), |u| ...)
resolve_client_user(client_user, the_salt) ==
  IF is_none(client_user) THEN PLACEHOLDER ELSE hash_user(client_user[1], the_salt)

\* a bool written as a number
bool_to_string_numeric(b) == IF b THEN "1" ELSE "0"

\* bool::to_string
bool_to_string(b) == IF b THEN "true" ELSE "false"

\* the arguments of one call of create_signal / send / send_sync
Args(st, cu, pl, tm, fv) ==
  [signal_type |-> st, client_user |-> cu, payload |-> pl,
   is_test_mode |-> tm, float_value |-> fv]

\* TelemetryDeck::create_signal (core.rs), order being the iteration order of
\* the merged map
create_signal(a, order) ==
  LET params == adding_params(default_params, a.payload)
  IN  [received_at  |-> now,
       app_id       |-> app_id,
       client_user  |-> resolve_client_user(a.client_user, salt),
       session_id   |-> session_id,
       signal_type  |-> a.signal_type,
       payload      |-> encoded_payload(params, order),
       is_test_mode |-> bool_to_string(unwrap_or(a.is_test_mode, FALSE)),
       float_value  |-> a.float_value]

\* the orders in which create_signal can meet the merged parameters
merge_orders(a) == into_iter(DOMAIN adding_params(default_params, a.payload))

\* build_url that takes no account of the namespace
build_url_default_only == url \o "/v2/"

\* TelemetryDeck::build_url
build_url ==
  IF is_some(namespace)
  THEN url \o "/v2/namespace/" \o namespace[1] \o "/"
  ELSE url \o "/v2/"

-----------------------------------------------------------------------------
(* serde_json::to_string(&signals) *)

\* the f64 values that have no JSON number
NonFinite == {"NaN", "inf", "-inf"}

\* serde_json writes a finite f64 as a number and any other f64 as null
json_number(f) == IF f \in NonFinite THEN "null" ELSE f

\* Signal serialized without skip_serializing_if: None is written as null
to_json_with_null(signal) ==
  [receivedAt |-> signal.received_at,
   appID      |-> signal.app_id,
   clientUser |-> signal.client_user,
   sessionID  |-> signal.session_id,
   type       |-> signal.signal_type,
   payload    |-> signal.payload,
   isTestMode |-> signal.is_test_mode,
   floatValue |-> IF is_some(signal.float_value)
                  THEN json_number(signal.float_value[1]) ELSE "null"]

\* one Signal of core.rs as a JSON object: the fields under their wire names,
\* floatValue skipped when the option is None
to_json(signal) ==
  LET object == [receivedAt |-> signal.received_at,
                 appID      |-> signal.app_id,
                 clientUser |-> signal.client_user,
                 sessionID  |-> signal.session_id,
                 type       |-> signal.signal_type,
                 payload    |-> signal.payload,
                 isTestMode |-> signal.is_test_mode]
  IN  IF is_some(signal.float_value)
      THEN object @@ [floatValue |-> json_number(signal.float_value[1])]
      ELSE object

\* a Vec<Signal> as a JSON array
to_string(signals) == [i \in 1..Len(signals) |-> to_json(signals[i])]

-----------------------------------------------------------------------------
(* telemetry.rs: the client of the cooperative single-threaded host *)

\* the closure of create_signal: format!("{:X}", sha256(u)).to_lowercase()
telemetry_hash_user(u) == to_lowercase(UpperHex(Sha256Of(as_bytes(u))))

\* TelemetryDeck::create_signal (telemetry.rs); its Signal has no float_value
telemetry_create_signal(a, order) ==
  LET params == adding_params(default_params, a.payload)
  IN  [received_at  |-> now,
       app_id       |-> app_id,
       client_user  |-> IF is_none(a.client_user) THEN PLACEHOLDER
                        ELSE telemetry_hash_user(a.client_user[1]),
       session_id   |-> session_id,
       signal_type  |-> a.signal_type,
       payload      |-> encoded_payload(params, order),
       is_test_mode |-> bool_to_string(unwrap_or(a.is_test_mode, FALSE))]

\* one Signal of telemetry.rs as a JSON object
telemetry_to_json(signal) ==
  [receivedAt |-> signal.received_at,
   appID      |-> signal.app_id,
   clientUser |-> signal.client_user,
   sessionID  |-> signal.session_id,
   type       |-> signal.signal_type,
   payload    |-> signal.payload,
   isTestMode |-> signal.is_test_mode]

telemetry_to_string(signals) ==
  [i \in 1..Len(signals) |-> telemetry_to_json(signals[i])]

\* the URL that send_many of telemetry.rs formats
telemetry_url == url \o "/api/v1/apps/" \o app_id \o "/signals/multiple/"

-----------------------------------------------------------------------------
(* Bounds of the model *)

\* calls of create_signal / send / send_sync in one behaviour
MaxCalls == 2

\* calls of reset_session in one behaviour
MaxResets == 1

\* readings of the clock after the first
MaxClock == 1

\* the response statuses the server can answer with
Statuses == {199, 200, 299, 300}

\* the failures serde_json::to_string can report
SerdeErrors == {"serialize"}

\* the failures the HTTP client can report instead of a response
TransportErrors == {"connect"}

\* the Result of serde_json::to_string: no error, or an error
SerdeOutcomes == {None} \cup { Some(e) : e \in SerdeErrors }

Response(s) == [is_err |-> FALSE, status |-> s, cause |-> ""]

TransportError(e) == [is_err |-> TRUE, status |-> 0, cause |-> e]

\* the Result of send().await: a response with a status, or an error
HttpOutcomes ==
  { Response(s) : s \in Statuses } \cup { TransportError(e) : e \in TransportErrors }

-----------------------------------------------------------------------------
(* Construction *)

\* Uuid::new_v4().to_string(): the n-th identifier the generator yields; the
\* generator is collision resistant, so two draws never give the same text
new_v4(n) == "uuid-" \o ToString(n)

\* new_with_config that stores the caller's params as they are
new_with_config_unmarked(id, ns, sl, params) ==
  /\ caller_params = params
  /\ url = BASE_URL
  /\ app_id = id
  /\ namespace = ns
  /\ salt = sl
  /\ default_params = params
  /\ session_id = new_v4(1)
  /\ uuids = 1

\* new_with_config that merges the caller's params over the marker
new_with_config_caller_wins(id, ns, sl, params) ==
  /\ caller_params = params
  /\ url = BASE_URL
  /\ app_id = id
  /\ namespace = ns
  /\ salt = sl
  /\ default_params = adding_params(CLIENT_VERSION_KEY :> VERSION, Some(params))
  /\ session_id = new_v4(1)
  /\ uuids = 1

\* TelemetryDeck::new_with_config (core.rs)
new_with_config(id, ns, sl, params) ==
  /\ caller_params = params
  /\ url = BASE_URL
  /\ app_id = id
  /\ namespace = ns
  /\ salt = sl
  /\ default_params = adding_params(params, Some(CLIENT_VERSION_KEY :> VERSION))
  /\ session_id = new_v4(1)
  /\ uuids = 1

\* TelemetryDeck::new (core.rs)
new(id) == new_with_config(id, None, None, <<>>)

\* TelemetryDeck::new_with_params (telemetry.rs): no namespace and no salt
telemetry_new_with_params(id, params) ==
  /\ caller_params = params
  /\ url = BASE_URL
  /\ app_id = id
  /\ namespace = None
  /\ salt = None
  /\ default_params = adding_params(params, Some(CLIENT_VERSION_KEY :> VERSION))
  /\ session_id = new_v4(1)
  /\ uuids = 1

\* TelemetryDeck::new (telemetry.rs)
telemetry_new(id) == telemetry_new_with_params(id, <<>>)

\* what is true after any constructor
Constructed ==
  /\ now = 0
  /\ resets = 0
  /\ calls = <<>>
  /\ posts = <<>>

-----------------------------------------------------------------------------
(* Calls *)

\* the record the model keeps of one call: its arguments, what the call moved
\* into its task or future (task), where the work stands (pc), the result the
\* caller has received, the number of earlier reset_session calls (epoch) and
\* the session id of the client when the call was made (session)
Call(m, a, t, p, r) ==
  [mode |-> m, args |-> a, task |-> t, pc |-> p, result |-> r,
   epoch |-> resets, session |-> session_id]

\* the () that send returns
Unit == [is_ok |-> TRUE, kind |-> "()", status |-> 0, cause |-> ""]

\* Ok(()) of Result<(), Box<dyn Error>>
Ok == [is_ok |-> TRUE, kind |-> "", status |-> 0, cause |-> ""]

\* Box<dyn Error> from a serde_json::Error (the ? of send_many_sync)
ErrSerde(e) == [is_ok |-> FALSE, kind |-> "serde_json::Error", status |-> 0, cause |-> e]

\* Box<dyn Error> from a reqwest::Error (the ? of send_many_sync)
ErrReqwest(e) == [is_ok |-> FALSE, kind |-> "reqwest::Error", status |-> 0, cause |-> e]

\* format!("HTTP error: {}", resp.status()).into()
ErrHttp(s) == [is_ok |-> FALSE, kind |-> "HTTP error", status |-> s, cause |-> ""]

\* is_success with the upper end of the range off by one
is_success_upto300(s) == 200 <= s /\ s <= 300

\* StatusCode::is_success
is_success(s) == 200 <= s /\ s < 300

\* a request as the HTTP client receives it, with the call it comes from
Post(i, u, body) ==
  [call |-> i, url |-> u, content_type |-> CONTENT_TYPE, body |-> body]

\* the client is mutably borrowed by reset_session, which the borrow checker
\* allows only while no send_sync future holds a shared borrow
Borrowed == \E i \in 1..Len(calls) : calls[i].pc \in {"awaiting", "stalled"}

\* reset_session that falls back to the current id when given none
reset_session_keeping(new_session_id) ==
  /\ ~Borrowed
  /\ session_id' = unwrap_or(new_session_id, session_id)
  /\ uuids' = uuids
  /\ resets' = resets + 1
  /\ UNCHANGED << target, caller_params, url, app_id, namespace, salt, default_params, now, calls, posts >>

\* reset_session that rebuilds the client from its app id, as new does
reset_session_rebuilding(new_session_id) ==
  /\ ~Borrowed
  /\ IF is_some(new_session_id)
     THEN session_id' = new_session_id[1] /\ uuids' = uuids
     ELSE session_id' = new_v4(uuids + 1) /\ uuids' = uuids + 1
  /\ resets' = resets + 1
  /\ namespace' = None
  /\ salt' = None
  /\ UNCHANGED << target, caller_params, url, app_id, default_params, now, calls, posts >>

\* TelemetryDeck::reset_session (core.rs and telemetry.rs)
reset_session(new_session_id) ==
  /\ ~Borrowed
  /\ IF is_some(new_session_id)
     THEN session_id' = new_session_id[1] /\ uuids' = uuids
     ELSE session_id' = new_v4(uuids + 1) /\ uuids' = uuids + 1
  /\ resets' = resets + 1
  /\ UNCHANGED << target, caller_params, url, app_id, namespace, salt, default_params, now, calls, posts >>

\* a call of create_signal alone (core.rs), as the unit tests make it; the
\* model keeps the record of the latest such call
create_signal_call(a) ==
  /\ target = "native"
  /\ \E order \in merge_orders(a) :
       calls' = << Call("create_signal", a,
                        [url |-> build_url, signals |-> <<create_signal(a, order)>>],
                        "built", None) >>
  /\ UNCHANGED << target, caller_params, config, uuids, now, resets, posts >>

\* a call of create_signal alone (telemetry.rs)
telemetry_create_signal_call(a) ==
  /\ target = "wasm"
  /\ \E order \in merge_orders(a) :
       calls' = << Call("create_signal", a,
                        [url |-> telemetry_url,
                         signals |-> <<telemetry_create_signal(a, order)>>],
                        "built", None) >>
  /\ UNCHANGED << target, caller_params, config, uuids, now, resets, posts >>

\* send_many (client_native.rs) up to tokio::spawn: what the task captures
send_many(signals) == [url |-> build_url, signals |-> signals]

\* send_one (client_native.rs)
send_one(signal) == send_many(<<signal>>)

\* send that first waits until every earlier dispatch has ended
send_after_pending(a) ==
  /\ target = "native"
  /\ \A i \in 1..Len(calls) : calls[i].pc \in {"finished", "panicked", "resolved"}
  /\ \E order \in merge_orders(a) :
       calls' = Append(calls,
                  Call("send", a, send_one(create_signal(a, order)), "spawned", Some(Unit)))
  /\ UNCHANGED << target, caller_params, config, uuids, now, resets, posts >>

\* send that merges the call's payload into the client's defaults in place
send_merging_defaults(a) ==
  /\ target = "native"
  /\ \E order \in merge_orders(a) :
       calls' = Append(calls,
                  Call("send", a, send_one(create_signal(a, order)), "spawned", Some(Unit)))
  /\ default_params' = adding_params(default_params, a.payload)
  /\ UNCHANGED << target, caller_params, url, app_id, namespace, salt, session_id, uuids, now, resets, posts >>

\* TelemetryDeck::send (client_native.rs): build, spawn, return
send(a) ==
  /\ target = "native"
  /\ \E order \in merge_orders(a) :
       calls' = Append(calls,
                  Call("send", a, send_one(create_signal(a, order)), "spawned", Some(Unit)))
  /\ UNCHANGED << target, caller_params, config, uuids, now, resets, posts >>

\* send_many_task run by a queue that starts the tasks in the order of the
\* calls
send_many_task_in_order(i, ser) ==
  /\ target = "native"
  /\ calls[i].mode = "send"
  /\ calls[i].pc = "spawned"
  /\ \A j \in 1..(i - 1) : calls[j].mode = "send" => calls[j].pc # "spawned"
  /\ IF is_some(ser)
     THEN /\ calls' = [calls EXCEPT ![i].pc = "panicked"]
          /\ posts' = posts
     ELSE /\ calls' = [calls EXCEPT ![i].pc = "posting"]
          /\ posts' = Append(posts,
                        Post(i, calls[i].task.url, to_string(calls[i].task.signals)))
  /\ UNCHANGED << target, caller_params, config, uuids, now, resets >>

\* send_many_task with the session id read when the task runs, not when
\* the signal was built
send_many_task_late_session(i, ser) ==
  /\ target = "native"
  /\ calls[i].mode = "send"
  /\ calls[i].pc = "spawned"
  /\ IF is_some(ser)
     THEN /\ calls' = [calls EXCEPT ![i].pc = "panicked"]
          /\ posts' = posts
     ELSE /\ calls' = [calls EXCEPT ![i].pc = "posting"]
          /\ posts' = Append(posts,
                        Post(i, calls[i].task.url,
                             to_string([k \in 1..Len(calls[i].task.signals) |->
                                [calls[i].task.signals[k] EXCEPT !.session_id = session_id]])))
  /\ UNCHANGED << target, caller_params, config, uuids, now, resets >>

\* the task spawned by send_many, up to its await: serialize, unwrap, post
send_many_task(i, ser) ==
  /\ target = "native"
  /\ calls[i].mode = "send"
  /\ calls[i].pc = "spawned"
  /\ IF is_some(ser)
     THEN /\ calls' = [calls EXCEPT ![i].pc = "panicked"]
          /\ posts' = posts
     ELSE /\ calls' = [calls EXCEPT ![i].pc = "posting"]
          /\ posts' = Append(posts,
                        Post(i, calls[i].task.url, to_string(calls[i].task.signals)))
  /\ UNCHANGED << target, caller_params, config, uuids, now, resets >>

\* send_many's task that starts over after an exchange that failed
send_many_done_respawn(i, outcome) ==
  /\ target = "native"
  /\ calls[i].mode = "send"
  /\ calls[i].pc = "posting"
  /\ calls' = [calls EXCEPT ![i].pc =
                 IF outcome.is_err \/ ~is_success(outcome.status)
                 THEN "spawned" ELSE "finished"]
  /\ UNCHANGED << target, caller_params, config, uuids, now, resets, posts >>

\* the task spawned by send_many, after its await: the outcome is dropped
send_many_done(i, outcome) ==
  /\ target = "native"
  /\ calls[i].mode = "send"
  /\ calls[i].pc = "posting"
  /\ calls' = [calls EXCEPT ![i].pc = "finished"]
  /\ UNCHANGED << target, caller_params, config, uuids, now, resets, posts >>

\* send_many_sync that formats its own URL and leaves the namespace out
send_many_sync_own_url(signals) == [url |-> url \o "/v2/", signals |-> signals]

\* send_many_sync (client_native.rs) before its await: what the future holds
send_many_sync(signals) == [url |-> build_url, signals |-> signals]

\* TelemetryDeck::send_sync (client_native.rs), from the first poll of the
\* future to the await of the HTTP exchange; ser is what serde_json returns
send_sync(a, ser) ==
  /\ target = "native"
  /\ \E order \in merge_orders(a) :
       LET fut == send_many_sync(<<create_signal(a, order)>>)
       IN  IF is_some(ser)
           THEN /\ calls' = Append(calls,
                              Call("send_sync", a, fut, "resolved", Some(ErrSerde(ser[1]))))
                /\ posts' = posts
           ELSE /\ calls' = Append(calls, Call("send_sync", a, fut, "awaiting", None))
                /\ posts' = Append(posts,
                              Post(Len(calls) + 1, fut.url, to_string(fut.signals)))
  /\ UNCHANGED << target, caller_params, config, uuids, now, resets >>

\* what send_many_sync returns for an outcome of the HTTP exchange
sync_result(outcome) ==
  IF outcome.is_err THEN ErrReqwest(outcome.cause)
  ELSE IF is_success(outcome.status) THEN Ok
  ELSE ErrHttp(outcome.status)

\* send_many_sync_resolve with a second attempt after a failed exchange
send_many_sync_resolve_retry(i, outcome) ==
  /\ target = "native"
  /\ calls[i].mode = "send_sync"
  /\ calls[i].pc = "awaiting"
  /\ IF outcome.is_err \/ ~is_success(outcome.status)
     THEN /\ posts' = Append(posts,
                        Post(i, calls[i].task.url, to_string(calls[i].task.signals)))
          /\ calls' = calls
     ELSE /\ calls' = [calls EXCEPT ![i].pc = "resolved",
                                    ![i].result = Some(sync_result(outcome))]
          /\ posts' = posts
  /\ UNCHANGED << target, caller_params, config, uuids, now, resets >>

\* send_many_sync after its await: the future resolves
send_many_sync_resolve(i, outcome) ==
  /\ target = "native"
  /\ calls[i].mode = "send_sync"
  /\ calls[i].pc = "awaiting"
  /\ calls' = [calls EXCEPT ![i].pc = "resolved",
                            ![i].result = Some(sync_result(outcome))]
  /\ UNCHANGED << target, caller_params, config, uuids, now, resets, posts >>

\* send_many_sync at its await when the exchange never completes: the client
\* is built by reqwest::Client::new(), which sets no timeout, so a peer that
\* accepts the request and never answers leaves the future pending for good
send_many_sync_stall(i) ==
  /\ target = "native"
  /\ calls[i].mode = "send_sync"
  /\ calls[i].pc = "awaiting"
  /\ calls' = [calls EXCEPT ![i].pc = "stalled"]
  /\ UNCHANGED << target, caller_params, config, uuids, now, resets, posts >>

\* send_many (telemetry.rs) up to spawn_local: what the task captures
telemetry_send_many(signals) == [url |-> telemetry_url, signals |-> signals]

\* send_one (telemetry.rs)
telemetry_send_one(signal) == telemetry_send_many(<<signal>>)

\* TelemetryDeck::send (telemetry.rs): build, schedule on the event loop, return
telemetry_send(a) ==
  /\ target = "wasm"
  /\ \E order \in merge_orders(a) :
       calls' = Append(calls,
                  Call("send", a, telemetry_send_one(telemetry_create_signal(a, order)),
                       "spawned", Some(Unit)))
  /\ UNCHANGED << target, caller_params, config, uuids, now, resets, posts >>

\* the task of send_many (telemetry.rs) up to its await: serialize, unwrap, post
telemetry_send_many_task(i, ser) ==
  /\ target = "wasm"
  /\ calls[i].pc = "spawned"
  /\ IF is_some(ser)
     THEN /\ calls' = [calls EXCEPT ![i].pc = "panicked"]
          /\ posts' = posts
     ELSE /\ calls' = [calls EXCEPT ![i].pc = "posting"]
          /\ posts' = Append(posts,
                        Post(i, calls[i].task.url, telemetry_to_string(calls[i].task.signals)))
  /\ UNCHANGED << target, caller_params, config, uuids, now, resets >>

\* the task of send_many (telemetry.rs) after its await: unwrap, println
telemetry_send_many_done(i, outcome) ==
  /\ target = "wasm"
  /\ calls[i].pc = "posting"
  /\ calls' = [calls EXCEPT ![i].pc = IF outcome.is_err THEN "panicked" ELSE "finished"]
  /\ UNCHANGED << target, caller_params, config, uuids, now, resets, posts >>

\* Utc::now() gives a later reading
Tick ==
  /\ now' = now + 1
  /\ UNCHANGED << target, caller_params, config, uuids, resets, calls, posts >>

-----------------------------------------------------------------------------
(* The client in use: constructors, callers and the two hosts *)

K1 == <<"k">>

KeyColon == <<"a", ":", "b">>

KeyUnderscore == <<"a", "_", "b">>

KeyColons == <<"x", ":", "y", ":", "z">>

\* the arguments of the calls made on the transport
TransportArgs ==
  { Args("signal_type", None, None, None, None),
    Args("signal_type", Some(<<"a", "b">>), Some(CLIENT_VERSION_KEY :> <<"2">>), Some(TRUE), Some("42.5")) }

\* telemetry.rs: send takes no float_value
TelemetryArgs ==
  { Args("signal_type", None, None, None, None),
    Args("signal_type", Some(<<"a", "b">>), Some(CLIENT_VERSION_KEY :> <<"2">>), Some(TRUE), None) }

\* the arguments of reset_session: none, or a text of the caller
ResetArgs == { None, Some("my session") }

Init ==
  /\ \/ /\ target = "native"
        /\ new_with_config("1234", Some("acme"), Some(<<"c">>), <<>>)
     \/ /\ target = "wasm"
        /\ telemetry_new("1234")
  /\ Constructed

CallResetSession == \E o \in ResetArgs : resets < MaxResets /\ reset_session(o)

CallSend == \E a \in TransportArgs : Len(calls) < MaxCalls /\ send(a)

CallSendSync ==
  \E a \in TransportArgs, ser \in SerdeOutcomes : Len(calls) < MaxCalls /\ send_sync(a, ser)

RunTask == \E i \in 1..Len(calls), ser \in SerdeOutcomes : send_many_task(i, ser)

FinishTask == \E i \in 1..Len(calls), outcome \in HttpOutcomes : send_many_done(i, outcome)

ResolveSync ==
  \E i \in 1..Len(calls), outcome \in HttpOutcomes : send_many_sync_resolve(i, outcome)

TelemetryCallSend == \E a \in TelemetryArgs : Len(calls) < MaxCalls /\ telemetry_send(a)

TelemetryRunTask ==
  \E i \in 1..Len(calls), ser \in SerdeOutcomes : telemetry_send_many_task(i, ser)

TelemetryFinishTask ==
  \E i \in 1..Len(calls), outcome \in HttpOutcomes : telemetry_send_many_done(i, outcome)

Next ==
  \/ CallResetSession
  \/ CallSend
  \/ CallSendSync
  \/ RunTask
  \/ FinishTask
  \/ ResolveSync
  \/ TelemetryCallSend
  \/ TelemetryRunTask
  \/ TelemetryFinishTask

Spec == Init /\ [][Next]_vars

-----------------------------------------------------------------------------
(* The builder alone: more configurations and more arguments *)

ClientUser == <<"c", "l", "i", "e", "n", "t", "U", "s", "e", "r">>

SomeSalt == <<"s", "o", "m", "e", "S", "a", "l", "t">>

\* the arguments of the calls of create_signal
BuildArgs ==
  { Args("signal_type", None, None, None, None),
    Args("signal_type", Some(ClientUser), None, None, None),
    Args("signal_type", Some(<<"a", "b">>), Some(<<>>), Some(FALSE), Some("42.5")),
    Args("signal_type", Some(<<"a">>), Some(K1 :> <<"2">>), Some(TRUE), Some("NaN")),
    Args("signal_type", Some(<<"c">>), Some(KeyUnderscore :> <<"2">>), None, None),
    Args("signal_type", Some(<<>>), Some(CLIENT_VERSION_KEY :> <<"7">>), None, Some("42.5")),
    Args("other_type", None, Some(KeyColons :> <<"v", ":", "w">>), Some(TRUE), None) }

\* telemetry.rs: create_signal takes no float_value
TelemetryBuildArgs == { a \in BuildArgs : is_none(a.float_value) }

InitBuild ==
  /\ \/ /\ target = "native"
        /\ \/ new("1234")
           \/ new_with_config("1234", Some("acme"), Some(<<"c">>), K1 :> <<"1">>)
           \/ new_with_config("1234", None, Some(<<>>),
                              (KeyColon :> <<"1">>) @@ (KeyUnderscore :> <<"1">>))
           \/ new_with_config("1234", None, Some(<<"b", "c">>),
                              (CLIENT_VERSION_KEY :> <<"9">>) @@ (K1 :> <<"1">>))
           \/ new_with_config("abcd", None, Some(SomeSalt), <<>>)
     \/ /\ target = "wasm"
        /\ \/ telemetry_new("1234")
           \/ telemetry_new_with_params("1234", K1 :> <<"1">>)
  /\ Constructed

BuildSignal == \E a \in BuildArgs : create_signal_call(a)

TelemetryBuildSignal == \E a \in TelemetryBuildArgs : telemetry_create_signal_call(a)

ClockTick == now < MaxClock /\ Tick

NextBuild ==
  \/ BuildSignal
  \/ TelemetryBuildSignal
  \/ ClockTick

SpecBuild == InitBuild /\ [][NextBuild]_vars

-----------------------------------------------------------------------------
(* Claims about the transport *)

CallIds == 1..Len(calls)

PostIds == 1..Len(posts)

\* the requests made for call i
PostsOf(i) == { p \in PostIds : posts[p].call = i }

\* C1: a fire-and-forget send never surfaces a failure: the call returns
\* normally, and neither the call nor the task it dispatched raises or aborts,
\* whatever serialization and the HTTP exchange produce.
C1_SendNeverFails ==
  \A i \in CallIds :
    calls[i].mode = "send" =>
      /\ calls[i].result = Some(Unit)
      /\ calls[i].pc # "panicked"

\* C2: send_sync resolves to success exactly when the POST completes with a
\* status in 200..299; another status gives a failure that carries the status,
\* a serialization or transport failure one that carries the cause.
C2_SendSyncResult ==
  [][ /\ Len(calls') > Len(calls) =>
           \A a \in TransportArgs, ser \in SerdeOutcomes :
             (is_some(ser) /\ send_sync(a, ser)) =>
               LET r == calls'[Len(calls')].result[1]
               IN  ~r.is_ok /\ r.cause = ser[1] /\ posts' = posts
      /\ \A i \in CallIds :
           (calls[i].pc = "awaiting" /\ calls'[i].pc # "awaiting") =>
             \A outcome \in HttpOutcomes :
               send_many_sync_resolve(i, outcome) =>
                 LET r == calls'[i].result[1]
                 IN  /\ r.is_ok <=> (~outcome.is_err /\ outcome.status \in 200..299)
                     /\ (~outcome.is_err /\ outcome.status \notin 200..299) =>
                          (~r.is_ok /\ r.status = outcome.status)
                     /\ outcome.is_err => (~r.is_ok /\ r.cause = outcome.cause)
                     /\ PostsOf(i) # {}
    ]_vars

\* C2 happens: one awaited send has resolved to success and another to the
\* failure that carries status 300
C2_Witness ==
  \E i, j \in CallIds :
    /\ calls[i].mode = "send_sync" /\ calls[i].result = Some(Ok)
    /\ calls[j].mode = "send_sync" /\ calls[j].pc = "resolved"
    /\ calls[j].result[1].status = 300

\* C3: the body a detached dispatch transmits carries the session id that was
\* current when send was called, also when reset_session ran in between.
C3_SessionAtBuild ==
  \A p \in PostIds :
    \A k \in 1..Len(posts[p].body) :
      posts[p].body[k].sessionID = calls[posts[p].call].session

\* C3 happens: a send was called, reset_session ran, a later call posted, and
\* only then did the task of the first send post, with the earlier session id
C3_Witness ==
  \E p, q \in PostIds :
    /\ q < p
    /\ posts[q].call > posts[p].call
    /\ calls[posts[p].call].mode = "send"
    /\ calls[posts[q].call].epoch > calls[posts[p].call].epoch
    /\ posts[p].body[1].sessionID # session_id
    /\ posts[q].body[1].sessionID = session_id

\* C4: every send and send_sync call transmits one signal, as a one-element
\* array, in at most one POST, whatever the outcome of that POST.
C4_OneSignalOnePost ==
  /\ \A p \in PostIds : Len(posts[p].body) = 1
  /\ \A i \in CallIds :
       /\ Len(calls[i].task.signals) = 1
       /\ Cardinality(PostsOf(i)) <= 1
       /\ calls[i].pc \in {"posting", "finished", "awaiting"} => Cardinality(PostsOf(i)) = 1

\* C4 happens: an awaited send has failed on its response and a detached
\* send has finished, each with its single request
C4_Witness ==
  \E i, j \in CallIds :
    /\ calls[i].mode = "send_sync" /\ calls[i].pc = "resolved"
    /\ calls[i].result[1].kind = "HTTP error"
    /\ calls[j].mode = "send" /\ calls[j].pc = "finished"
    /\ Len(posts) = 2

\* the session ids held by the calls made so far
SessionsInUse == { calls[i].session : i \in CallIds }

\* C5: reset_session with an explicit id makes that id the session id;
\* reset_session without one makes a freshly generated id the session id, and
\* it differs from the session id before the call.
C5_ResetSession ==
  [][ \A o \in ResetArgs :
        reset_session(o) =>
          IF is_some(o)
          THEN session_id' = o[1]
          ELSE /\ session_id' # session_id
               /\ session_id' \notin SessionsInUse
               /\ session_id' \notin { new_v4(n) : n \in 1..uuids }
    ]_vars

\* C5 happens: a signal was built under the id of construction, and a reset
\* without an id has since installed a generated id
C5_Witness ==
  /\ resets >= 1
  /\ session_id = new_v4(uuids)
  /\ uuids >= 2
  /\ \E i \in CallIds : calls[i].session = new_v4(1)

\* C6: building and sending never change session_id or default_params, so all
\* signals built between two resets carry one session id.
C6_SendKeepsSession ==
  /\ [][ resets' = resets => UNCHANGED << session_id, default_params >> ]_vars
  /\ [](\A i, j \in CallIds :
          calls[i].epoch = calls[j].epoch =>
            /\ calls[i].task.signals[1].session_id = calls[j].task.signals[1].session_id
            /\ calls[i].task.signals[1].session_id = calls[i].session)
  /\ [](\A i \in CallIds : calls[i].epoch = resets =>
          calls[i].task.signals[1].session_id = session_id)

\* C6 happens: after a reset, a detached and an awaited send with a payload
\* were made and both have run to their end
C6_Witness ==
  \E i, j \in CallIds :
    /\ i # j
    /\ calls[i].epoch = 1 /\ calls[j].epoch = 1
    /\ calls[i].mode = "send" /\ calls[i].pc = "finished"
    /\ calls[j].mode = "send_sync" /\ calls[j].pc = "resolved"
    /\ is_some(calls[i].args.payload)

\* C7: app_id, namespace, salt and url never change after construction, and
\* reset_session changes session_id and nothing else of the client.
C7_ConfigImmutable ==
  /\ [][ UNCHANGED << app_id, namespace, salt, url >> ]_vars
  /\ [][ resets' # resets =>
           UNCHANGED << app_id, namespace, salt, url, default_params >> ]_vars

\* C7 happens: a client built with a namespace and a salt has sent, was reset
\* to an explicit id, and still holds both
C7_Witness ==
  /\ resets >= 1
  /\ session_id = "my session"
  /\ namespace = Some("acme")
  /\ is_some(salt)
  /\ calls # <<>>

-----------------------------------------------------------------------------
(* Claims about the signal builder *)

\* the digest the unit test create_signal_with_user_is_hashed expects
DigestClientUser ==
  << "6", "7", "2", "1", "8", "7", "0", "5", "8", "0", "4", "0", "1", "9", "2", "2",
     "5", "4", "9", "f", "e", "8", "f", "d", "b", "0", "9", "a", "0", "6", "4", "d",
     "b", "a", "5", "b", "8", "7", "9", "2", "f", "a", "0", "1", "8", "d", "3", "b",
     "d", "9", "f", "f", "a", "9", "0", "f", "e", "3", "7", "a", "0", "1", "4", "9" >>

\* the digest the unit test create_signal_with_user_and_salt_is_hashed expects
DigestClientUserSomeSalt ==
  << "f", "f", "d", "d", "6", "1", "3", "c", "e", "5", "2", "1", "b", "2", "e", "9",
     "4", "b", "8", "9", "3", "1", "b", "d", "a", "d", "f", "f", "d", "9", "6", "8",
     "5", "7", "f", "6", "a", "b", "b", "d", "e", "6", "c", "0", "e", "e", "1", "f",
     "c", "f", "0", "b", "7", "6", "1", "2", "7", "f", "b", "b", "9", "e", "5", "a" >>

\* the text a salt contributes: nothing when absent
SaltText(s) == unwrap_or(s, <<>>)

\* a signal has been built
Built == calls # <<>> /\ calls[1].mode = "create_signal"

BuiltSignal == calls[1].task.signals[1]

\* C8: with a user identifier, client_user is the lower-case hexadecimal
\* SHA-256 digest of the identifier followed by the salt (the identifier alone
\* when the salt is absent or empty); it depends on identifier and salt only,
\* so a repeated build gives the same value and another salt another value,
\* and it is never the raw identifier.
C8_ClientUserHashed ==
  /\ [](Built /\ is_some(calls[1].args.client_user) =>
          LET u  == calls[1].args.client_user[1]
              cu == BuiltSignal.client_user
          IN  /\ cu = LowerHex(Sha256Of(as_bytes(u \o SaltText(salt))))
              /\ Len(cu) = 64
              /\ \A k \in 1..Len(cu) : \E d \in 1..16 : cu[k] = LowerDigits[d]
              /\ (u = ClientUser /\ SaltText(salt) = <<>>) => cu = DigestClientUser
              /\ (u = ClientUser /\ salt = Some(SomeSalt)) => cu = DigestClientUserSomeSalt
              /\ \A s2 \in SaltOptions :
                   SaltText(s2) # SaltText(salt) => hash_user(u, s2) # cu
              /\ cu # u)
  /\ [][ (Built /\ Built' /\ calls'[1].args.client_user = calls[1].args.client_user
            /\ is_some(calls[1].args.client_user)) =>
           calls'[1].task.signals[1].client_user = BuiltSignal.client_user ]_vars

\* C8 happens: the identifier of the unit test was hashed by a client that
\* holds the salt of the unit test
C8_Witness ==
  /\ Built
  /\ target = "native"
  /\ salt = Some(SomeSalt)
  /\ calls[1].args.client_user = Some(ClientUser)
  /\ BuiltSignal.client_user = DigestClientUserSomeSalt

\* C9: without a user identifier, client_user is the placeholder literal
\* itself, with or without a salt; the placeholder is not hashed.
C9_PlaceholderUnhashed ==
  (Built /\ is_none(calls[1].args.client_user)) =>
    /\ BuiltSignal.client_user = <<"r", "u", "s", "t">>
    /\ \A s2 \in SaltOptions \cup {salt} :
         BuiltSignal.client_user # LowerHex(Sha256Of(as_bytes(<<"r", "u", "s", "t">> \o SaltText(s2))))

\* C9 happens: a client that holds a non-empty salt built a signal without a
\* user identifier
C9_Witness ==
  /\ Built
  /\ is_some(salt) /\ salt[1] # <<>>
  /\ is_none(calls[1].args.client_user)
  /\ BuiltSignal.client_user = PLACEHOLDER

\* the entries of an encoded payload
Entries(payload) == { payload[i] : i \in 1..Len(payload) }

\* the per-call payload of the build, empty when none was given
CallParams == unwrap_or(calls[1].args.payload, <<>>)

\* key k written as encoded_payload writes it
Sanitized(k) == replace(k, ":", <<"_">>)

\* C10: the merge of the defaults with the per-call payload is right-biased:
\* for a key in both, the encoded payload carries the per-call value and not
\* the default value; a key in only one of the two appears with its own value.
C10_RightBiased ==
  Built =>
    LET d == default_params
        p == CallParams
        e == Entries(BuiltSignal.payload)
    IN  /\ \A k \in (DOMAIN d) \cap (DOMAIN p) :
             /\ (Sanitized(k) \o <<":">> \o p[k]) \in e
             /\ p[k] # d[k] => (Sanitized(k) \o <<":">> \o d[k]) \notin e
        /\ \A k \in (DOMAIN d) \ (DOMAIN p) : (Sanitized(k) \o <<":">> \o d[k]) \in e
        /\ \A k \in (DOMAIN p) \ (DOMAIN d) : (Sanitized(k) \o <<":">> \o p[k]) \in e

\* C10, amended: for a key in both, the encoded payload carries the per-call
\* value, and it carries the default value under that key's sanitized text
\* only where another key of the merged mapping is sanitized to the same text
\* and holds that value; a key in only one of the two appears with its own
\* value, and the payload has one entry per key of the merged mapping.
C10_RightBiasedPerKey ==
  Built =>
    LET d == default_params
        p == CallParams
        m == (DOMAIN d) \cup (DOMAIN p)
        v(k) == IF k \in DOMAIN p THEN p[k] ELSE d[k]
        e == Entries(BuiltSignal.payload)
    IN  /\ \A k \in (DOMAIN d) \cap (DOMAIN p) :
             /\ (Sanitized(k) \o <<":">> \o p[k]) \in e
             /\ (p[k] # d[k] /\ (Sanitized(k) \o <<":">> \o d[k]) \in e) =>
                  \E k2 \in m \ {k} : Sanitized(k2) = Sanitized(k) /\ v(k2) = d[k]
        /\ \A k \in (DOMAIN d) \ (DOMAIN p) : (Sanitized(k) \o <<":">> \o d[k]) \in e
        /\ \A k \in (DOMAIN p) \ (DOMAIN d) : (Sanitized(k) \o <<":">> \o p[k]) \in e
        /\ Len(BuiltSignal.payload) = Cardinality(m)

\* C10 happens: a default was overridden by the call, and the payload holds
\* the call's value for it and not the default
C10_Witness ==
  /\ Built
  /\ K1 \in (DOMAIN default_params) \cap (DOMAIN CallParams)
  /\ default_params[K1] = <<"1">> /\ CallParams[K1] = <<"2">>
  /\ (K1 \o <<":", "2">>) \in Entries(BuiltSignal.payload)
  /\ (K1 \o <<":", "1">>) \notin Entries(BuiltSignal.payload)

\* the text of the marker entry that carries value v
MarkerEntry(v) == CLIENT_VERSION_KEY \o <<":">> \o v

\* C11: every built signal has at least one payload entry and an entry for
\* the library-version marker key; the entry carries the library version
\* unless the per-call payload holds the same key, and then it carries the
\* per-call value.
C11_MarkerEntry ==
  Built =>
    LET e == Entries(BuiltSignal.payload)
    IN  /\ Len(BuiltSignal.payload) >= 1
        /\ \E x \in e : Len(x) > Len(CLIENT_VERSION_KEY)
                        /\ SubSeq(x, 1, Len(CLIENT_VERSION_KEY) + 1) = CLIENT_VERSION_KEY \o <<":">>
        /\ IF CLIENT_VERSION_KEY \in DOMAIN CallParams
           THEN /\ MarkerEntry(CallParams[CLIENT_VERSION_KEY]) \in e
                /\ CallParams[CLIENT_VERSION_KEY] # VERSION => MarkerEntry(VERSION) \notin e
           ELSE MarkerEntry(VERSION) \in e

\* C11 happens: a client built without params has built a signal without a
\* payload, and its only entry is the marker with the library version
C11_Witness ==
  /\ Built
  /\ caller_params = <<>>
  /\ is_none(calls[1].args.payload)
  /\ BuiltSignal.payload = << MarkerEntry(VERSION) >>

\* C12: construction merges the version marker over the caller's params:
\* default_params holds the marker key with the library version, also when
\* the caller's params hold that key with another value, and every other
\* entry of the caller is kept unchanged.
C12_MarkerOverCaller ==
  /\ DOMAIN default_params = (DOMAIN caller_params) \cup {CLIENT_VERSION_KEY}
  /\ default_params[CLIENT_VERSION_KEY] = VERSION
  /\ \A k \in (DOMAIN caller_params) \ {CLIENT_VERSION_KEY} :
       default_params[k] = caller_params[k]

\* C12 happens: the caller's params held the marker key with another value
\* and a further entry, and a signal has been built from the client
C12_Witness ==
  /\ Built
  /\ CLIENT_VERSION_KEY \in DOMAIN caller_params
  /\ caller_params[CLIENT_VERSION_KEY] # VERSION
  /\ K1 \in DOMAIN caller_params
  /\ default_params[K1] = caller_params[K1]

\* the keys of the parameters a build merges, and the value each ends with
MergedKeys == (DOMAIN default_params) \cup (DOMAIN CallParams)

MergedValue(k) == IF k \in DOMAIN CallParams THEN CallParams[k] ELSE default_params[k]

\* t is k with every ':' replaced by '_'
IsSanitizedOf(t, k) ==
  /\ Len(t) = Len(k)
  /\ \A i \in 1..Len(k) : t[i] = (IF k[i] = ":" THEN "_" ELSE k[i])

\* x is the entry "{sanitized k}:{v}"
IsEntryOf(x, k, v) ==
  /\ Len(x) = Len(k) + 1 + Len(v)
  /\ IsSanitizedOf(SubSeq(x, 1, Len(k)), k)
  /\ x[Len(k) + 1] = ":"
  /\ SubSeq(x, Len(k) + 2, Len(x)) = v

\* C13: in every encoded payload entry the text before the first ':' holds no
\* ':': every ':' of a parameter key is replaced by '_' and the entry is
\* "{sanitized_key}:{value}", for default and per-call keys alike.
C13_KeysSanitized ==
  Built =>
    /\ \A x \in Entries(BuiltSignal.payload) :
         \E k \in MergedKeys :
           /\ IsEntryOf(x, k, MergedValue(k))
           /\ \A i \in 1..Len(k) : x[i] # ":"
    /\ \A k \in MergedKeys :
         \E x \in Entries(BuiltSignal.payload) : IsEntryOf(x, k, MergedValue(k))

\* C13 happens: a default key with one ':' and a per-call key with two, whose
\* value holds a ':' too, were encoded in one payload
C13_Witness ==
  /\ Built
  /\ KeyColon \in DOMAIN default_params
  /\ KeyColons \in DOMAIN CallParams
  /\ <<"a", "_", "b", ":", "1">> \in Entries(BuiltSignal.payload)
  /\ <<"x", "_", "y", "_", "z", ":", "v", ":", "w">> \in Entries(BuiltSignal.payload)

-----------------------------------------------------------------------------
(* The native transport over clients with and without a namespace *)

InitUrl ==
  /\ target = "native"
  /\ \/ new("1234")
     \/ new_with_config("1234", Some("my-namespace"), None, <<>>)
     \/ new_with_config("abcd", Some("acme"), Some(<<"c">>), <<>>)
  /\ Constructed

NextUrl ==
  \/ CallSend
  \/ CallSendSync
  \/ RunTask
  \/ FinishTask
  \/ ResolveSync

SpecUrl == InitUrl /\ [][NextUrl]_vars

\* the URL the endpoint rule gives for the client's configuration
EndpointUrl ==
  IF namespace = None THEN url \o "/v2/"
  ELSE url \o "/v2/namespace/" \o namespace[1] \o "/"

\* C14: the ingestion URL depends on the configuration only: base_url followed
\* by /v2/namespace/{namespace}/ when a namespace is set and by /v2/ otherwise,
\* and send and send_sync both POST to exactly this URL.
C14_EndpointUrl ==
  /\ url = "https://nom.telemetrydeck.com"
  /\ namespace = None => build_url = "https://nom.telemetrydeck.com/v2/"
  /\ namespace = Some("my-namespace") =>
       build_url = "https://nom.telemetrydeck.com/v2/namespace/my-namespace/"
  /\ build_url = EndpointUrl
  /\ \A p \in PostIds :
       /\ calls[posts[p].call].mode \in {"send", "send_sync"}
       /\ posts[p].url = EndpointUrl

\* C14 happens: with a namespace set, a detached send and an awaited send
\* have both posted
C14_Witness ==
  /\ namespace = Some("my-namespace")
  /\ \E p, q \in PostIds :
       /\ calls[posts[p].call].mode = "send"
       /\ calls[posts[q].call].mode = "send_sync"
       /\ posts[p].url = "https://nom.telemetrydeck.com/v2/namespace/my-namespace/"
       /\ posts[q].url = posts[p].url

\* the JSON object the built signal is serialized to
BuiltJson ==
  IF target = "native" THEN to_json(BuiltSignal) ELSE telemetry_to_json(BuiltSignal)

\* C15: float_value is carried from the call into the signal unchanged; when
\* it is not supplied the serialized body has no floatValue field, and when it
\* is supplied the body has a floatValue field with that number.
C15_FloatValue ==
  Built =>
    /\ target = "native" => BuiltSignal.float_value = calls[1].args.float_value
    /\ is_none(calls[1].args.float_value) => "floatValue" \notin DOMAIN BuiltJson
    /\ is_some(calls[1].args.float_value) =>
         /\ "floatValue" \in DOMAIN BuiltJson
         /\ BuiltJson.floatValue = calls[1].args.float_value[1]

\* C15, amended: float_value is carried from the call into the signal
\* unchanged; when it is not supplied the serialized body has no floatValue
\* field; when a finite number is supplied the body has a floatValue field
\* with that number, and when a non-finite one is supplied the body has a
\* floatValue field that is null.
C15_FloatValueFinite ==
  Built =>
    /\ target = "native" => BuiltSignal.float_value = calls[1].args.float_value
    /\ is_none(calls[1].args.float_value) => "floatValue" \notin DOMAIN BuiltJson
    /\ is_some(calls[1].args.float_value) =>
         /\ "floatValue" \in DOMAIN BuiltJson
         /\ calls[1].args.float_value[1] \notin {"NaN", "inf", "-inf"} =>
              BuiltJson.floatValue = calls[1].args.float_value[1]
         /\ calls[1].args.float_value[1] \in {"NaN", "inf", "-inf"} =>
              BuiltJson.floatValue = "null"

\* C15 happens: a signal was built with NaN, holds NaN, and is serialized
\* with a null floatValue
C15_Witness ==
  /\ Built
  /\ calls[1].args.float_value = Some("NaN")
  /\ BuiltSignal.float_value = Some("NaN")
  /\ BuiltJson.floatValue = "null"

\* C16: is_test_mode of every signal is one of the strings "true" and
\* "false": "false" when the caller leaves it unspecified or passes false, and
\* "true" only when the caller passes true.
C16_TestModeText ==
  Built =>
    /\ BuiltSignal.is_test_mode \in {"true", "false"}
    /\ calls[1].args.is_test_mode \in {None, Some(FALSE)} => BuiltSignal.is_test_mode = "false"
    /\ BuiltSignal.is_test_mode = "true" <=> calls[1].args.is_test_mode = Some(TRUE)
    /\ BuiltJson.isTestMode = BuiltSignal.is_test_mode

\* C16 happens: the caller passed true and the signal holds the string "true"
C16_Witness ==
  /\ Built
  /\ calls[1].args.is_test_mode = Some(TRUE)
  /\ BuiltSignal.is_test_mode = "true"
  /\ BuiltJson.isTestMode = "true"

-----------------------------------------------------------------------------
(* Awaited sends under fair scheduling, with a transport that may never
   complete an exchange *)

InitLive ==
  /\ target = "native"
  /\ new_with_config("1234", Some("acme"), Some(<<"c">>), <<>>)
  /\ Constructed

StallSync == \E i \in 1..Len(calls) : send_many_sync_stall(i)

NextLive ==
  \/ CallSendSync
  \/ ResolveSync
  \/ StallSync

\* the future of call i is polled to its end once its exchange has an outcome
ResolveCall(i) ==
  \E outcome \in HttpOutcomes : i \in 1..Len(calls) /\ send_many_sync_resolve(i, outcome)

SpecLive ==
  /\ InitLive
  /\ [][NextLive]_vars
  /\ \A i \in 1..MaxCalls : WF_vars(ResolveCall(i))

\* C17: an awaited send always resolves: every send_sync call eventually
\* returns success or a failure, and never stays suspended forever.
C17_SendSyncResolves ==
  \A i \in 1..MaxCalls :
    [](i \in CallIds =>
         <>(i \in CallIds /\ calls[i].pc = "resolved" /\ is_some(calls[i].result)))

-----------------------------------------------------------------------------
(* Further claims about the transport *)

\* C18: a fire-and-forget send returns without waiting for the HTTP exchange:
\* the call has returned while its dispatch has not started or not completed
\* the POST, the caller can go on whatever responses are outstanding, and the
\* dispatched work may complete after the call has returned.
C18_SendReturnsAtOnce ==
  /\ \A i \in CallIds :
       calls[i].mode = "send" =>
         /\ calls[i].result = Some(Unit)
         /\ calls[i].pc \in {"spawned", "posting", "finished", "panicked"}
         /\ calls[i].pc = "spawned" => PostsOf(i) = {}
  /\ (target = "native" /\ Len(calls) < MaxCalls) => ENABLED CallSend
  /\ (target = "wasm" /\ Len(calls) < MaxCalls) => ENABLED TelemetryCallSend

\* C18 happens: the first send has returned and its exchange is still in
\* flight, and the caller has made a second send whose task has not started
C18_Witness ==
  /\ Len(calls) = 2
  /\ calls[1].mode = "send" /\ calls[1].pc = "posting" /\ calls[1].result = Some(Unit)
  /\ calls[2].mode = "send" /\ calls[2].pc = "spawned" /\ calls[2].result = Some(Unit)
  /\ Len(posts) = 1

\* the request of post p without the call it belongs to
Request(p) == [url |-> posts[p].url, content_type |-> posts[p].content_type,
               body |-> posts[p].body]

CommonFields(signal) ==
  [client_user |-> signal.client_user, payload |-> signal.payload,
   is_test_mode |-> signal.is_test_mode, session_id |-> signal.session_id,
   app_id |-> signal.app_id]

\* C20: the two variants behave alike apart from the transport primitive: for
\* the same configuration and call arguments the single-threaded variant
\* builds the signal the native variant builds (client_user, payload,
\* is_test_mode, session id, app id) and POSTs it to the URL that build_url
\* gives.
C20_SameAcrossVariants ==
  target = "wasm" =>
    \A i \in CallIds :
      calls[i].epoch = resets =>
        /\ \E order \in merge_orders(calls[i].args) :
             CommonFields(create_signal(calls[i].args, order))
               = CommonFields(calls[i].task.signals[1])
        /\ calls[i].task.url = build_url
        /\ \A p \in PostsOf(i) : posts[p].url = build_url

\* where a call stands in the machine Built -> Dispatched -> terminal: a send
\* is Detached once it has returned; a send_sync is Dispatched while it awaits
\* and Delivered or Failed once it has resolved
Phase(c) ==
  IF c.mode = "send" THEN "Detached"
  ELSE IF c.pc = "resolved" THEN (IF c.result[1].is_ok THEN "Delivered" ELSE "Failed")
  ELSE "Dispatched"

\* how far the work of a call has come
Progress(c) ==
  CASE c.pc \in {"spawned", "awaiting"} -> 1
    [] c.pc = "posting" -> 2
    [] c.pc \in {"finished", "panicked", "resolved"} -> 3

\* C21: each send call follows Built -> Dispatched -> terminal: the signal is
\* built before anything is dispatched, the call is dispatched at most once,
\* an awaited send ends in exactly one of Delivered and Failed, a
\* fire-and-forget send ends Detached, and no call leaves a terminal state or
\* returns to an earlier one.
C21_CallStateMachine ==
  /\ [](/\ \A p \in PostIds :
             /\ posts[p].call \in CallIds
             /\ Len(calls[posts[p].call].task.signals) = 1
             /\ posts[p].url = calls[posts[p].call].task.url
             /\ posts[p].body[1].sessionID = calls[posts[p].call].task.signals[1].session_id
             /\ posts[p].body[1].payload = calls[posts[p].call].task.signals[1].payload
        /\ \A i \in CallIds :
             /\ Cardinality(PostsOf(i)) <= 1
             /\ calls[i].mode = "send" =>
                  /\ Phase(calls[i]) = "Detached"
                  /\ calls[i].result = Some(Unit)
                  /\ calls[i].pc \in {"spawned", "posting", "finished", "panicked"}
             /\ calls[i].mode = "send_sync" =>
                  /\ calls[i].pc \in {"awaiting", "resolved"}
                  /\ calls[i].pc = "awaiting" => (calls[i].result = None /\ PostsOf(i) # {})
                  /\ calls[i].pc = "resolved" =>
                       /\ Phase(calls[i]) \in {"Delivered", "Failed"}
                       /\ Phase(calls[i]) = "Delivered" <=> calls[i].result = Some(Ok)
                       /\ Phase(calls[i]) = "Delivered" => PostsOf(i) # {})
  /\ [][ \A i \in CallIds :
           /\ i \in 1..Len(calls')
           /\ calls'[i].mode = calls[i].mode
           /\ calls'[i].task = calls[i].task
           /\ Progress(calls'[i]) >= Progress(calls[i])
           /\ Progress(calls[i]) = 3 => calls'[i] = calls[i]
           /\ is_some(calls[i].result) => calls'[i].result = calls[i].result
           /\ PostsOf(i) \subseteq { p \in 1..Len(posts') : posts'[p].call = i }
           /\ \A p \in PostsOf(i) : posts'[p] = posts[p]
    ]_vars

\* C21 happens: one awaited send was dispatched and has ended Delivered, and
\* another has ended Failed on a transport error
C21_Witness ==
  \E i, j \in CallIds :
    /\ calls[i].mode = "send_sync" /\ Phase(calls[i]) = "Delivered"
    /\ calls[j].mode = "send_sync" /\ Phase(calls[j]) = "Failed"
    /\ calls[j].result[1].kind = "reqwest::Error"
    /\ Cardinality(PostsOf(i)) = 1 /\ Cardinality(PostsOf(j)) = 1

-----------------------------------------------------------------------------
(* Further claims about the signal builder *)

\* the positions of payload that hold the text x
PositionsOf(payload, x) == { i \in 1..Len(payload) : payload[i] = x }

\* the merged keys whose entry is the text x
KeysWritingTo(x) == { k \in MergedKeys : IsEntryOf(x, k, MergedValue(k)) }

\* C22: the encoder does not deduplicate after sanitizing keys: the encoded
\* payload has exactly one entry per distinct key of the merged mapping, so
\* two distinct keys that are sanitized to the same text both appear, and the
\* right-biased override applies only to keys equal before sanitization.
C22_NoDeduplication ==
  Built =>
    /\ Len(BuiltSignal.payload) = Cardinality(MergedKeys)
    /\ \A x \in Entries(BuiltSignal.payload) :
         Cardinality(PositionsOf(BuiltSignal.payload, x)) = Cardinality(KeysWritingTo(x))
    /\ \A k \in MergedKeys : \E x \in Entries(BuiltSignal.payload) : k \in KeysWritingTo(x)
    /\ \A k \in (DOMAIN default_params) \ (DOMAIN CallParams) :
         \E i \in 1..Len(BuiltSignal.payload) :
           IsEntryOf(BuiltSignal.payload[i], k, default_params[k])
    /\ \A k \in (DOMAIN default_params) \cap (DOMAIN CallParams) :
         \E i \in 1..Len(BuiltSignal.payload) :
           IsEntryOf(BuiltSignal.payload[i], k, CallParams[k])

\* C22 happens: the defaults hold a:b and a_b, the call overrides a_b, and the
\* payload holds two entries with the key part a_b: the default of a:b and the
\* call's value of a_b
C22_Witness ==
  /\ Built
  /\ KeyColon \in DOMAIN default_params
  /\ KeyUnderscore \in (DOMAIN default_params) \cap (DOMAIN CallParams)
  /\ Len(BuiltSignal.payload) = 3
  /\ KeyUnderscore \o <<":", "1">> \in Entries(BuiltSignal.payload)
  /\ KeyUnderscore \o <<":", "2">> \in Entries(BuiltSignal.payload)

\* the SHA-256 digest of "abc" (FIPS 180-4, example B.1)
DigestAbc ==
  << "b", "a", "7", "8", "1", "6", "b", "f", "8", "f", "0", "1", "c", "f", "e", "a",
     "4", "1", "4", "1", "4", "0", "d", "e", "5", "d", "a", "e", "2", "2", "2", "3",
     "b", "0", "0", "3", "6", "1", "a", "3", "9", "6", "1", "7", "7", "a", "9", "c",
     "b", "4", "1", "0", "f", "f", "6", "1", "f", "2", "0", "0", "1", "5", "a", "d" >>

\* C23: client_user depends only on the concatenation identifier ++ salt,
\* with no separator: two pairs with different identifiers and the same
\* concatenation give the same client_user, and an empty identifier with salt
\* s gives the client_user of identifier s with no salt.
C23_ConcatenationOnly ==
  (Built /\ target = "native" /\ is_some(calls[1].args.client_user)) =>
    LET u  == calls[1].args.client_user[1]
        cu == BuiltSignal.client_user
    IN  /\ \A u2 \in UserTexts, s2 \in SaltOptions :
             (u2 \o SaltText(s2) = u \o SaltText(salt)) => hash_user(u2, s2) = cu
        /\ u \o SaltText(salt) = <<"a", "b", "c">> => cu = DigestAbc
        /\ (u = <<>> /\ is_some(salt)) => cu = hash_user(salt[1], None)

\* C23 happens: identifier ab was hashed under salt c, and the result is what
\* identifier a gives under salt bc
C23_Witness ==
  /\ Built
  /\ salt = Some(<<"c">>)
  /\ calls[1].args.client_user = Some(<<"a", "b">>)
  /\ BuiltSignal.client_user = hash_user(<<"a">>, Some(<<"b", "c">>))
  /\ BuiltSignal.client_user = DigestAbc

-----------------------------------------------------------------------------
(* Ordering of detached sends *)

\* C24: fire-and-forget sends of one native client are independent tasks with
\* no order between them: the task of a later send can post while that of an
\* earlier one has not, and each POST carries the body and the URL captured at
\* its own call.
C24_IndependentTasks ==
  target = "native" =>
    /\ \A i \in CallIds :
         (calls[i].mode = "send" /\ calls[i].pc = "spawned") =>
           ENABLED (\E ser \in SerdeOutcomes : send_many_task(i, ser))
    /\ \A p \in PostIds :
         LET c == calls[posts[p].call]
         IN  c.mode = "send" =>
               /\ posts[p].url = c.task.url
               /\ posts[p].body = to_string(c.task.signals)
               /\ posts[p].body[1].sessionID = c.session

\* C24 happens: of two sends with a reset between them, the second has posted
\* before the first, and each body carries the session id of its own call
C24_Witness ==
  /\ target = "native"
  /\ Len(posts) = 2
  /\ posts[1].call = 2 /\ posts[2].call = 1
  /\ calls[1].mode = "send" /\ calls[2].mode = "send"
  /\ calls[1].session # calls[2].session
  /\ posts[1].body[1].sessionID = calls[2].session
  /\ posts[2].body[1].sessionID = calls[1].session

====
